---------------------------- MODULE Spec2Model ----------------------------
(***************************************************************************)
(* TOVsolver (src/tovsolver/tov.py): the TOV class, its constructor with   *)
(* the optional crust splice, solve and solve_tidal.                        *)
(*                                                                         *)
(* Real quantities are integers in scaled units (TLC's integers are 32 bit *)
(* wide): the physical constants keep their role and their place in the    *)
(* formulas but have small values, chosen so that a star spans a few grid  *)
(* steps.  Every real division is a floor division.  The three SciPy       *)
(* services are modelled by their contract:                                *)
(*   interp1d  sorts its nodes by abscissa, needs four of them for a cubic,*)
(*             is exact at the nodes, raises ValueError outside of them    *)
(*             (between nodes the model interpolates linearly);            *)
(*   root      evaluates the function at the initial guess and then        *)
(*             returns some point at which it evaluated it, with a success *)
(*             flag that is true only at a zero;                           *)
(*   odeint    advances from one output radius to the next with the        *)
(*             derivative taken at the current point (a one-step explicit  *)
(*             scheme), and evaluates the derivative once more past the    *)
(*             last output radius, dropping that value.                    *)
(***************************************************************************)
EXTENDS Integers, Sequences, FiniteSets

\* ------------------------------------------------------------- constants
\* constants.py, in scaled units
G == 1
c == 700
pi == 3
Msun == 4
MeV_fm3_to_pa_cgs == 980000
\* tov.py:294, centimetres per kilometre
CmPerKm == 2
\* tov.py:127, the initial guess of the splice density, in MeV/fm^3
GlueGuess == 44
\* tov.py:185, both components of the sentinel derivative
Sentinel == 100000
\* tov.py:166, dp = p * 0.005, as DpNum / DpDen
DpNum == 5
DpDen == 1000
\* interp1d(kind='cubic') needs order + 1 nodes
CubicMinPoints == 4
\* dmrel is given in units of 1 / DmrelDen
DmrelDen == 100

\* MeV_fm3_to_pa_cgs / c**2: energy density, MeV/fm^3 -> internal
EnUnit == MeV_fm3_to_pa_cgs \div (c * c)
\* MeV_fm3_to_pa_cgs: pressure, MeV/fm^3 -> internal
PUnit == MeV_fm3_to_pa_cgs

\* ------------------------------------------------------------- bounds
\* the largest rmax a call passes
MaxR == 16

\* ------------------------------------------------------------- sequences
RECURSIVE SeqMin(_)
SeqMin(s) ==
  IF Len(s) = 1 THEN s[1]
  ELSE LET t == SeqMin(Tail(s)) IN IF s[1] < t THEN s[1] ELSE t

RECURSIVE SeqMax(_)
SeqMax(s) ==
  IF Len(s) = 1 THEN s[1]
  ELSE LET t == SeqMax(Tail(s)) IN IF s[1] > t THEN s[1] ELSE t

Scale(s, k) == [i \in 1..Len(s) |-> s[i] * k]

\* np.argsort: the indices that put the keys in ascending order (stable)
RECURSIVE InsertIdx(_, _, _)
InsertIdx(keys, sorted, i) ==
  IF sorted = <<>> THEN <<i>>
  ELSE IF keys[i] < keys[Head(sorted)] THEN <<i>> \o sorted
  ELSE <<Head(sorted)>> \o InsertIdx(keys, Tail(sorted), i)

RECURSIVE ArgsortUpTo(_, _)
ArgsortUpTo(keys, n) ==
  IF n = 0 THEN <<>> ELSE InsertIdx(keys, ArgsortUpTo(keys, n - 1), n)

argsort(keys) == ArgsortUpTo(keys, Len(keys))

Take(s, idx) == [i \in 1..Len(idx) |-> s[idx[i]]]

NonDecreasing(s) == \A i \in 1..(Len(s) - 1) : s[i] <= s[i + 1]

\* ------------------------------------------------------------- interp1d
\* the interpolant object: its nodes sorted by abscissa
NoInterp == [x |-> <<>>, y |-> <<>>]

interp1d(x, y) ==
  LET idx == argsort(x) IN [x |-> Take(x, idx), y |-> Take(y, idx)]

\* interp1d(kind='cubic') raises ValueError on fewer nodes
CanInterp(x) == Len(x) >= CubicMinPoints

\* a query raises ValueError outside [x[0], x[-1]] (bounds_error)
InDomain(f, q) == Len(f.x) > 0 /\ f.x[1] <= q /\ q <= f.x[Len(f.x)]

Eval(f, q) ==
  IF \E i \in 1..Len(f.x) : f.x[i] = q
  THEN f.y[CHOOSE i \in 1..Len(f.x) :
               f.x[i] = q /\ \A j \in 1..(i - 1) : f.x[j] # q]
  ELSE LET i == CHOOSE k \in 1..(Len(f.x) - 1) : f.x[k] < q /\ q < f.x[k + 1]
       IN f.y[i] + ((f.y[i + 1] - f.y[i]) * (q - f.x[i]))
                     \div (f.x[i + 1] - f.x[i])

AllInDomain(f, qs) == \A i \in 1..Len(qs) : InDomain(f, qs[i])

EvalAll(f, qs) == [i \in 1..Len(qs) |-> Eval(f, qs[i])]

\* ------------------------------------------------------------- inputs
\* the (energy density, pressure) tables a caller passes, in MeV/fm^3:
\* ascending, the same in descending order, one that never meets the crust,
\* one that starts above the splice guess
Tables ==
  { [en |-> <<20, 40, 60, 80>>, p |-> <<1, 2, 4, 7>>],
    [en |-> <<80, 60, 40, 20>>, p |-> <<7, 4, 2, 1>>],
    [en |-> <<20, 40, 60, 80>>, p |-> <<2, 5, 9, 14>>],
    [en |-> <<50, 60, 70, 80>>, p |-> <<3, 4, 5, 7>>] }

\* data/Baym_eos.dat, columns en and p: ascending, in internal units
baym_eos ==
  [en |-> <<2, 20, 60, 88, 140>>,
   p  |-> <<1000, 20000, 400000, 2352000, 9800000>>]

\* the central densities a call passes, in MeV/fm^3
CDensSet == {0, 10, 50, 80, 90}

\* (rmax, dr, dmrel) of a call; dmrel in units of 1 / DmrelDen
CallSet ==
  { [rmax |-> MaxR,        dr |-> 2, dmrel |-> 1],
    [rmax |-> MaxR \div 2, dr |-> 2, dmrel |-> 1],
    [rmax |-> MaxR,        dr |-> 4, dmrel |-> 1],
    [rmax |-> MaxR,        dr |-> 2, dmrel |-> DmrelDen] }

\* the largest value a caller's array holds when a solver is built from it
MaxValue == 2000000000

\* ------------------------------------------------------------- state
VARIABLES
  en_arr,   \* the caller's energy-density array (the constructor's argument)
  p_arr,    \* the caller's pressure array
  given,    \* what the caller put into the two arrays
  self,     \* the solver object
  last,     \* the last call on the solver and what it returned or raised
  first     \* the first solve call on the solver and what it returned

vars == <<en_arr, p_arr, given, self, last, first>>

\* ------------------------------------------------------------- TOV.__init__
NoSolver ==
  [built |-> FALSE, raised |-> "none",
   en_dens |-> NoInterp, press |-> NoInterp,
   en_arr |-> <<>>, p_arr |-> <<>>,
   min_dens |-> 0, max_dens |-> 0, min_p |-> 0, max_p |-> 0,
   crust |-> FALSE, n_glue |-> 0, success |-> TRUE]

\* lines 64-80: the object after the table is stored, before add_crust
InitTable(en, p) ==
  [built |-> TRUE, raised |-> "none",
   en_dens |-> interp1d(Take(p, argsort(p)), Take(en, argsort(p))),
   press |-> interp1d(Take(en, argsort(en)), Take(p, argsort(en))),
   en_arr |-> en, p_arr |-> p,
   min_dens |-> SeqMin(en), max_dens |-> SeqMax(en),
   min_p |-> SeqMin(p), max_p |-> SeqMax(p),
   crust |-> FALSE, n_glue |-> 0, success |-> TRUE]

\* ------------------------------------------------------------- TOV.add_crust
P_crust == interp1d(baym_eos.en, baym_eos.p)

\* eq_glue raises ValueError where either interpolant does
CanGlue(s, n) == InDomain(P_crust, n) /\ InDomain(s.press, n)

eq_glue(s, n) == Eval(P_crust, n) - Eval(s.press, n)

\* root(eq_glue, [44 * (MeV_fm3_to_pa_cgs / c**2)], maxfev = 200): the
\* results it may return, x and success; raised when eq_glue raises
RootResults(s) ==
  LET x0 == GlueGuess * EnUnit
      nodes == {x0} \cup {baym_eos.en[i] : i \in 1..Len(baym_eos.en)}
                    \cup {s.en_arr[i] : i \in 1..Len(s.en_arr)}
  IN IF ~CanGlue(s, x0) THEN {[raised |-> TRUE, x |-> x0, success |-> FALSE]}
     ELSE IF eq_glue(s, x0) = 0
          THEN {[raised |-> FALSE, x |-> x0, success |-> TRUE]}
          ELSE {[raised |-> FALSE, x |-> n, success |-> (eq_glue(s, n) = 0)] :
                  n \in {m \in nodes : CanGlue(s, m)}}

\* lines 134-139: the crust points up to the first one at or above n_glue
RECURSIVE CrustBelow(_, _)
CrustBelow(i, n_glue) ==
  IF i > Len(baym_eos.p) \/ ~(baym_eos.en[i] < n_glue) THEN <<>>
  ELSE <<i>> \o CrustBelow(i + 1, n_glue)

\* lines 143-146: the table's points at or above n_glue, in the table's order
RECURSIVE TableAbove(_, _, _)
TableAbove(s, i, n_glue) ==
  IF i > Len(s.p_arr) THEN <<>>
  ELSE (IF s.en_arr[i] >= n_glue THEN <<i>> ELSE <<>>)
         \o TableAbove(s, i + 1, n_glue)

MergedEn(s, n_glue) ==
  Take(baym_eos.en, CrustBelow(1, n_glue))
    \o Take(s.en_arr, TableAbove(s, 1, n_glue))

MergedP(s, n_glue) ==
  Take(baym_eos.p, CrustBelow(1, n_glue))
    \o Take(s.p_arr, TableAbove(s, 1, n_glue))

\* lines 127-158, for the result g of root
add_crust(s, g) ==
  LET n_glue == g.x
      en == MergedEn(s, n_glue)
      p == MergedP(s, n_glue)
  IN IF g.raised \/ en = <<>> \/ ~CanInterp(en)
     THEN [NoSolver EXCEPT !.raised = "ValueError"]
     ELSE [s EXCEPT !.min_dens = SeqMin(en), !.min_p = SeqMin(p),
                    !.en_dens = interp1d(p, en), !.press = interp1d(en, p),
                    !.en_arr = en, !.p_arr = p,
                    !.crust = TRUE, !.n_glue = n_glue, !.success = g.success]

\* ------------------------------------------------------------- TOV.tov_eq
\* tov_eq with "and" for "or" in the guard of line 204
tov_eq_and(s, y, r) ==
  LET P == y[1]
      m == y[2]
  IN IF P < s.min_p /\ P > s.max_p
     THEN [kind |-> "value", queried |-> FALSE, d |-> <<0, 0>>]
     ELSE IF ~InDomain(s.en_dens, P)
     THEN [kind |-> "raise", queried |-> TRUE, d |-> <<0, 0>>]
     ELSE LET eden == Eval(s.en_dens, P)
              num == -G * (eden + P \div (c * c))
                        * (m + 4 * pi * r * r * r * (P \div (c * c)))
              den == r * (r - (2 * G * m) \div (c * c))
          IN IF den = 0
             THEN [kind |-> "nonfinite", queried |-> TRUE, d |-> <<0, 0>>]
             ELSE [kind |-> "value", queried |-> TRUE,
                   d |-> <<num \div den, 4 * pi * r * r * eden>>]

\* lines 201-214: the derivatives of (P, m) at radius r.  kind is "value",
\* "raise" (en_dens raises ValueError) or "nonfinite" (a division by zero,
\* which NumPy turns into inf or nan); queried tells whether en_dens was asked
tov_eq(s, y, r) ==
  LET P == y[1]
      m == y[2]
  IN IF P < s.min_p \/ P > s.max_p
     THEN [kind |-> "value", queried |-> FALSE, d |-> <<0, 0>>]
     ELSE IF ~InDomain(s.en_dens, P)
     THEN [kind |-> "raise", queried |-> TRUE, d |-> <<0, 0>>]
     ELSE LET eden == Eval(s.en_dens, P)
              num == -G * (eden + P \div (c * c))
                        * (m + 4 * pi * r * r * r * (P \div (c * c)))
              den == r * (r - (2 * G * m) \div (c * c))
          IN IF den = 0
             THEN [kind |-> "nonfinite", queried |-> TRUE, d |-> <<0, 0>>]
             ELSE [kind |-> "value", queried |-> TRUE,
                   d |-> <<num \div den, 4 * pi * r * r * eden>>]

\* ------------------------------------------------------------- odeint
\* line 271, odeint(self.tov_eq, [P, m], r): the solution from output point k
\* on, where it is y.  nfev counts the calls of tov_eq, nq those that asked
\* en_dens
RECURSIVE OdeintTov(_, _, _, _, _)
OdeintTov(s, r, h, k, y) ==
  LET f == tov_eq(s, y, IF k = Len(r) THEN r[k] + h ELSE r[k])
      nq == IF f.queried THEN 1 ELSE 0
  IN IF f.kind # "value" \/ k = Len(r)
     THEN [kind |-> f.kind, P |-> <<y[1]>>, m |-> <<y[2]>>,
           nfev |-> 1, nq |-> nq]
     ELSE LET dr == r[k + 1] - r[k]
              rest == OdeintTov(s, r, h, k + 1,
                                <<y[1] + dr * f.d[1], y[2] + dr * f.d[2]>>)
          IN [kind |-> rest.kind, P |-> <<y[1]>> \o rest.P,
              m |-> <<y[2]>> \o rest.m,
              nfev |-> rest.nfev + 1, nq |-> rest.nq + nq]

\* ------------------------------------------------------------- Python lists
\* s[k] for a Python index k, which counts from the end when negative
PyIndexOK(s, k) == IF k < 0 THEN -k <= Len(s) ELSE k < Len(s)

PyIndex(s, k) == IF k < 0 THEN s[Len(s) + k + 1] ELSE s[k + 1]

\* s[:k]
PySliceTo(s, k) ==
  LET n == IF k < 0 THEN (IF Len(s) + k < 0 THEN 0 ELSE Len(s) + k)
           ELSE (IF k > Len(s) THEN Len(s) ELSE k)
  IN SubSeq(s, 1, n)

\* np.arange(dr, rmax + dr, dr)
arange(dr, rmax) == [k \in 1..((rmax + dr - 1) \div dr) |-> dr * k]

\* ------------------------------------------------------------- TOV.solve
\* check_density with the two bounds excluded
check_density_open(s, dens) == dens <= s.min_dens \/ dens >= s.max_dens

\* line 217: check_density raises
check_density(s, dens) == dens < s.min_dens \/ dens > s.max_dens

\* lines 278, 281: (m1 - m0) / m1 < dmrel, as NumPy evaluates it
DmLess(m0, m1, dmrel) ==
  IF m1 > 0 THEN (m1 - m0) * DmrelDen < dmrel * m1
  ELSE IF m1 < 0 THEN (m1 - m0) * DmrelDen > dmrel * m1
  ELSE m1 - m0 < 0

\* lines 279-283: the scan for the boundary, from the Python index i on
RECURSIVE ScanFrom(_, _, _)
ScanFrom(m_R, dmrel, i) ==
  IF i + 2 > Len(m_R) THEN -1
  ELSE IF DmLess(m_R[i + 1], m_R[i + 2], dmrel) /\ m_R[i + 1] # 0 THEN i
  ELSE ScanFrom(m_R, dmrel, i + 1)

NoResult ==
  [status |-> "none", R |-> 0, M |-> 0,
   r |-> <<>>, e_R |-> <<>>, p_R |-> <<>>, m_R |-> <<>>,
   grid |-> <<>>, P_sol |-> <<>>, m_sol |-> <<>>, ind |-> 0,
   nfev |-> 0, nq |-> 0,
   beta |-> 0, H |-> 0, y |-> 0, love |-> "none", sentinels |-> 0]

Raised(what) == [NoResult EXCEPT !.status = what]

\* Profile with M and R taken at ind, not at ind - 1
Profile_at_ind(s, r, sol, ind) ==
  IF ~PyIndexOK(sol.m_sol, ind)
  THEN [sol EXCEPT !.status = "IndexError", !.ind = ind]
  ELSE IF ~AllInDomain(s.en_dens, PySliceTo(sol.P_sol, ind))
  THEN [sol EXCEPT !.status = "ValueError", !.ind = ind]
  ELSE [sol EXCEPT !.status = "ok", !.ind = ind,
                   !.R = PyIndex(r, ind) \div CmPerKm,
                   !.M = PyIndex(sol.m_sol, ind) \div Msun,
                   !.r = PySliceTo(r, ind),
                   !.e_R = EvalAll(s.en_dens, PySliceTo(sol.P_sol, ind)),
                   !.p_R = PySliceTo(sol.P_sol, ind),
                   !.m_R = PySliceTo(sol.m_sol, ind)]

\* lines 285-294, for the boundary index ind found by the scan
Profile(s, r, sol, ind) ==
  IF ~PyIndexOK(sol.m_sol, ind - 1)
  THEN [sol EXCEPT !.status = "IndexError", !.ind = ind]
  ELSE IF ~AllInDomain(s.en_dens, PySliceTo(sol.P_sol, ind))
  THEN [sol EXCEPT !.status = "ValueError", !.ind = ind]
  ELSE [sol EXCEPT !.status = "ok", !.ind = ind,
                   !.R = PyIndex(r, ind - 1) \div CmPerKm,
                   !.M = PyIndex(sol.m_sol, ind - 1) \div Msun,
                   !.r = PySliceTo(r, ind),
                   !.e_R = EvalAll(s.en_dens, PySliceTo(sol.P_sol, ind)),
                   !.p_R = PySliceTo(sol.P_sol, ind),
                   !.m_R = PySliceTo(sol.m_sol, ind)]

\* lines 273-283, for the solution psol odeint returned
Boundary(s, r, dmrel, psol) ==
  IF psol.kind = "raise"
  THEN [NoResult EXCEPT !.status = "ValueError", !.grid = r,
                        !.nfev = psol.nfev, !.nq = psol.nq]
  ELSE IF psol.kind = "nonfinite"
  THEN [NoResult EXCEPT !.status = "NonFinite", !.grid = r,
                        !.nfev = psol.nfev, !.nq = psol.nq]
  ELSE Profile(s, r,
               [NoResult EXCEPT !.grid = r, !.P_sol = psol.P,
                                !.m_sol = psol.m, !.nfev = psol.nfev,
                                !.nq = psol.nq],
               ScanFrom(psol.m, dmrel, 0))

\* lines 267-271, for the central pressure P
Integrate(s, r, dr, dmrel, P) ==
  IF ~InDomain(s.en_dens, P) THEN Raised("ValueError")
  ELSE Boundary(s, r, dmrel,
                OdeintTov(s, r, dr, 1,
                          <<P, 4 * pi * r[1] * r[1] * r[1]
                                 * Eval(s.en_dens, P)>>))

\* lines 261-294
solve(s, c_dens_MeV, rmax, dmrel, dr) ==
  IF check_density(s, c_dens_MeV * EnUnit) THEN Raised("DomainError")
  ELSE IF ~InDomain(s.press, c_dens_MeV * EnUnit) THEN Raised("ValueError")
  ELSE Integrate(s, arange(dr, rmax), dr, dmrel,
                 Eval(s.press, c_dens_MeV * EnUnit))

\* ------------------------------------------------------------- TOV.dedp
\* a * b / d, the product taken after the division so that it stays small
MulDiv(a, b, d) ==
  IF d > 0 THEN (a \div d) * b + ((a % d) * b) \div d
  ELSE -((a \div (-d)) * b + ((a % (-d)) * b) \div (-d))

\* lines 162-176.  kind is "value", "raise" (en_dens raises ValueError at a
\* stencil point) or "nonfinite" (dp = 0); de_dp is returned times c**2
dedp(s, r, R_dep) ==
  LET p == Eval(R_dep.p_R, r)
      dp == (p * DpNum) \div DpDen
      at(k) == Eval(s.en_dens, p + k * dp)
  IN IF \E k \in {-3, -2, -1, 1, 2, 3} : ~InDomain(s.en_dens, p + k * dp)
     THEN [kind |-> "raise", de_dp |-> 0]
     ELSE IF dp = 0 THEN [kind |-> "nonfinite", de_dp |-> 0]
     ELSE [kind |-> "value",
           de_dp |-> ((-at(-3) + 9 * at(-2) - 45 * at(-1)
                       + 45 * at(1) - 9 * at(2) + at(3)) * (c * c))
                       \div (60 * dp)]

\* ------------------------------------------------------------- TOV.love_eq
\* lines 189-199, for the profile's e, p, m at r and de_dp times c**2
Perturbation(beta, H, r, e, p, m, de_dp) ==
  LET c2 == c * c
      horizon == r * c2 - 2 * G * m
      matter == 5 * e + (9 * p) \div c2 + de_dp * (e + p \div c2)
      W == (G * (m + 4 * pi * r * r * r * (p \div c2))) \div (r * r)
      Z == (-(r * c2) + G * m
             + 2 * pi * r * r * r * G * (e - p \div c2)) \div r
  IN IF horizon = 0 THEN [kind |-> "nonfinite", d |-> <<0, 0>>]
     ELSE [kind |-> "value",
           d |-> << MulDiv(r * c2,
                           2 * ( (-(2 * pi * G * H * matter)) \div c2
                                 + (3 * H) \div (r * r)
                                 + MulDiv(r * c2,
                                          (2 * H * ((W * W) \div c2)) \div c2,
                                          horizon)
                                 + (beta * Z) \div (r * c2) ),
                           horizon),
                    beta >>]

\* lines 187-199, for the value de that dedp returned
LoveValue(param, r, R_dep, de) ==
  IF de.kind # "value" THEN [kind |-> de.kind, d |-> <<0, 0>>]
  ELSE Perturbation(param[1], param[2], r, Eval(R_dep.e_R, r),
                    Eval(R_dep.p_R, r), Eval(R_dep.m_R, r), de.de_dp)

\* lines 178-199: the derivatives of (beta, H) at radius r.  kind is
\* "sentinel" (p_R raised and the ValueError was caught), "raise" (a
\* ValueError leaves love_eq), "nonfinite" or "value"
love_eq(s, param, r, R_dep) ==
  IF ~InDomain(R_dep.p_R, r)
  THEN [kind |-> "sentinel", d |-> <<Sentinel, Sentinel>>]
  ELSE LoveValue(param, r, R_dep, dedp(s, r, R_dep))

\* line 343, odeint(self.love_eq, [beta0, H0], r, args = ([e_R, p_R, m_R],)):
\* the solution from output point k on, where it is y
RECURSIVE OdeintLove(_, _, _, _, _, _)
OdeintLove(s, R_dep, r, h, k, y) ==
  LET f == love_eq(s, y, IF k = Len(r) THEN r[k] + h ELSE r[k], R_dep)
      ns == IF f.kind = "sentinel" THEN 1 ELSE 0
  IN IF f.kind \in {"raise", "nonfinite"}
     THEN [kind |-> f.kind, last |-> y, sentinels |-> 0]
     ELSE IF k = Len(r) THEN [kind |-> "value", last |-> y, sentinels |-> ns]
     ELSE LET dr == r[k + 1] - r[k]
              rest == OdeintLove(s, R_dep, r, h, k + 1,
                                 <<y[1] + dr * f.d[1], y[2] + dr * f.d[2]>>)
          IN [rest EXCEPT !.sentinels = @ + ns]

\* ------------------------------------------------------------- TOV.solve_tidal
\* lines 345-357, for the solution odeint returned; of the returned array,
\* C and k2 (a logarithm) are left out
LoveNumber(star, solution) ==
  IF solution.kind = "raise"
  THEN [star EXCEPT !.status = "ValueError", !.love = "raise"]
  ELSE IF solution.kind = "nonfinite" \/ solution.last[2] = 0
  THEN [star EXCEPT !.status = "NonFinite", !.love = "nonfinite"]
  ELSE [star EXCEPT !.R = (star.R * CmPerKm) \div CmPerKm,
                    !.M = (star.M * Msun) \div Msun,
                    !.beta = solution.last[1], !.H = solution.last[2],
                    !.y = (star.R * CmPerKm * solution.last[1])
                            \div solution.last[2],
                    !.love = "ok", !.sentinels = solution.sentinels]

\* lines 331-357, for the star that solve returned
Tidal(s, star, dr) ==
  IF star.status # "ok" THEN star
  ELSE IF ~CanInterp(star.r) THEN [star EXCEPT !.status = "ValueError"]
  ELSE LoveNumber(star,
         OdeintLove(s,
                    [e_R |-> interp1d(star.r, star.e_R),
                     p_R |-> interp1d(star.r, star.p_R),
                     m_R |-> interp1d(star.r, star.m_R)],
                    star.r, dr, 1, <<2 * star.r[1], star.r[1] * star.r[1]>>))

\* lines 330-357
solve_tidal(s, c_dens_MeV, rmax, dmrel, dr) ==
  Tidal(s, solve(s, c_dens_MeV, rmax, dmrel, dr), dr)

\* ------------------------------------------------------------- operations
NoCall ==
  [op |-> "none", c_dens |-> 0, rmax |-> 0, dmrel |-> 0, dr |-> 0,
   res |-> NoResult]

Call(op, c_dens, a, res) ==
  [op |-> op, c_dens |-> c_dens, rmax |-> a.rmax, dmrel |-> a.dmrel,
   dr |-> a.dr, res |-> res]

\* a call that keeps the converted central density as the solver's minimum
SelfAfterCall_stores(s, c_dens_MeV) ==
  [s EXCEPT !.min_dens = c_dens_MeV * EnUnit]

\* the solver after solve or solve_tidal (lines 261-294, 330-357): neither
\* assigns an attribute of self
SelfAfterCall(s, c_dens_MeV) == s

Init ==
  /\ given \in Tables
  /\ en_arr = given.en
  /\ p_arr = given.p
  /\ self = NoSolver
  /\ last = NoCall
  /\ first = NoCall

\* the caller fills two new arrays
NewArrays(t) ==
  /\ given' = t
  /\ en_arr' = t.en
  /\ p_arr' = t.p
  /\ self' = NoSolver
  /\ last' = NoCall
  /\ first' = NoCall

\* TOV(en_arr, p_arr, add_crust = crust): lines 64-87.  The two in-place
\* products of lines 64-65 write into the caller's arrays
Construct(crust) ==
  /\ SeqMax(en_arr) <= MaxValue \div EnUnit
  /\ SeqMax(p_arr) <= MaxValue \div PUnit
  /\ LET en == Scale(en_arr, EnUnit)
         p == Scale(p_arr, PUnit)
         s == InitTable(en, p)
     IN /\ en_arr' = en
        /\ p_arr' = p
        /\ IF ~CanInterp(en) THEN self' = [NoSolver EXCEPT !.raised = "ValueError"]
           ELSE IF crust THEN \E g \in RootResults(s) : self' = add_crust(s, g)
           ELSE self' = s
  /\ last' = [NoCall EXCEPT !.op = "init"]
  /\ first' = NoCall
  /\ UNCHANGED given

\* solver.solve(c_dens, rmax = a.rmax, dmrel = a.dmrel, dr = a.dr)
Solve(c_dens, a) ==
  /\ self.built
  /\ last' = Call("solve", c_dens, a, solve(self, c_dens, a.rmax, a.dmrel, a.dr))
  /\ first' = IF first.op = "none" THEN last' ELSE first
  /\ self' = SelfAfterCall(self, c_dens)
  /\ UNCHANGED <<en_arr, p_arr, given>>

\* solver.solve_tidal(c_dens, rmax = a.rmax, dmrel = a.dmrel, dr = a.dr)
SolveTidal(c_dens, a) ==
  /\ self.built
  /\ last' = Call("solve_tidal", c_dens, a,
                  solve_tidal(self, c_dens, a.rmax, a.dmrel, a.dr))
  /\ self' = SelfAfterCall(self, c_dens)
  /\ UNCHANGED <<en_arr, p_arr, given, first>>

Next ==
  \/ \E t \in Tables : NewArrays(t)
  \/ \E crust \in BOOLEAN : Construct(crust)
  \/ \E c_dens \in CDensSet, a \in CallSet : Solve(c_dens, a)
  \/ \E c_dens \in CDensSet, a \in CallSet : SolveTidal(c_dens, a)

Spec == Init /\ [][Next]_vars

\* ------------------------------------------------------------- properties
\* what the properties read of the last call
IsSolve == last.op = "solve"
IsCall == last.op \in {"solve", "solve_tidal"}
res == last.res
\* odeint returned a solution (tov_eq neither raised nor divided by zero)
Integrated == IsCall /\ res.P_sol # <<>>
InRange(P) == self.min_p <= P /\ P <= self.max_p

\* the grid points, counted from 1, at which the mass has stopped growing:
\* (m[k+1] - m[k]) / m[k+1] < dmrel and m[k] # 0
PlateauAt(m, k, dmrel) ==
  /\ m[k + 1] > 0
  /\ (m[k + 1] - m[k]) * DmrelDen < dmrel * m[k + 1]
  /\ m[k] # 0
Plateaus(m, dmrel) == {k \in 1..(Len(m) - 1) : PlateauAt(m, k, dmrel)}
FirstPlateau(m, dmrel) ==
  CHOOSE k \in Plateaus(m, dmrel) : \A j \in Plateaus(m, dmrel) : k <= j

\* C1: on a solver built with or without the crust, a central density below
\* the smallest or above the largest energy density of the solver's table
\* makes solve fail with the out-of-range error before tov_eq is called once,
\* and a central density within them passes check_density.
C1_DensityRange ==
  /\ self.built => /\ self.min_dens = SeqMin(self.en_arr)
                   /\ self.max_dens = SeqMax(self.en_arr)
  /\ IsCall =>
       IF \/ last.c_dens * EnUnit < SeqMin(self.en_arr)
          \/ last.c_dens * EnUnit > SeqMax(self.en_arr)
       THEN res.status = "DomainError" /\ res.nfev = 0 /\ res.grid = <<>>
       ELSE res.status # "DomainError"

\* C1: solve on a crust-merged solver has raised the out-of-range error
C1_Witness ==
  /\ IsSolve /\ self.crust
  /\ res.status = "DomainError"
  /\ last.c_dens * EnUnit > SeqMax(self.en_arr)

\* C2: when the integrated mass has a plateau whose first index i is at least
\* 1, solve returns R and M of grid point i - 1 and the four arrays cut to the
\* indices 0..i-1 (k = i + 1 counts from 1).
C2_SurfaceDetection ==
  (IsSolve /\ Integrated /\ Plateaus(res.m_sol, last.dmrel) # {}
     /\ FirstPlateau(res.m_sol, last.dmrel) >= 2) =>
    LET k == FirstPlateau(res.m_sol, last.dmrel)
    IN /\ res.status = "ok"
       /\ res.R = res.grid[k - 1] \div CmPerKm
       /\ res.M = res.m_sol[k - 1] \div Msun
       /\ res.r = SubSeq(res.grid, 1, k - 1)
       /\ res.p_R = SubSeq(res.P_sol, 1, k - 1)
       /\ res.m_R = SubSeq(res.m_sol, 1, k - 1)
       /\ res.e_R = [j \in 1..(k - 1) |-> Eval(self.en_dens, res.P_sol[j])]

\* C2: solve has found a plateau after several grid points
C2_Witness ==
  /\ IsSolve /\ res.status = "ok"
  /\ Plateaus(res.m_sol, last.dmrel) # {}
  /\ FirstPlateau(res.m_sol, last.dmrel) >= 4
  /\ Len(res.r) = FirstPlateau(res.m_sol, last.dmrel) - 1

\* C3: a solver built with the crust was built from a converged root solve.
C3_ConvergedSplice == (self.built /\ self.crust) => self.success

\* C4: after add_crust the table's energy densities and its pressures are
\* non-decreasing in the order of the merge.
C4_MergedMonotone ==
  (self.built /\ self.crust) =>
    NonDecreasing(self.en_arr) /\ NonDecreasing(self.p_arr)

\* C5: after the constructor the caller's two arrays hold what the caller put
\* into them.
C5_ArgumentsKept == (last.op = "init") => (en_arr = given.en /\ p_arr = given.p)

C7_LoveAbsorbs == (last.op = "solve_tidal") => res.love # "raise"

\* C8: the integration starts at r = dr with P0 = press(c_dens) and
\* m0 = (4/3) * pi * dr**3 * c_dens.
C8_InitialConditions ==
  (IsSolve /\ Integrated) =>
    /\ res.grid[1] = last.dr
    /\ res.P_sol[1] = Eval(self.press, last.c_dens * EnUnit)
    /\ res.m_sol[1] = (4 * pi * last.dr * last.dr * last.dr
                         * (last.c_dens * EnUnit)) \div 3

C10_ProfileEndsAtSurface ==
  (IsSolve /\ res.status = "ok") =>
    /\ Len(res.r) > 0
    /\ Len(res.e_R) = Len(res.r)
    /\ Len(res.p_R) = Len(res.r)
    /\ Len(res.m_R) = Len(res.r)
    /\ res.R = res.r[Len(res.r)] \div CmPerKm
    /\ res.M = res.m_R[Len(res.r)] \div Msun

=============================================================================





